---- MODULE Spec2Model ----
(***************************************************************************)
(* Layout model of the std140 crate.                                       *)
(*                                                                         *)
(* The host types of the crate are #[repr(C, align(N))] structs; their     *)
(* native size and alignment follow from the attributes in the source and  *)
(* from the repr(C) placement rule.  The documented std140 sizes and the   *)
(* std140 offset rule are modelled next to them, so that the native        *)
(* placement of an aggregate's fields can be compared with the std140      *)
(* placement.  The values of the crate (vectors, matrices, arrays and      *)
(* booleans) are modelled with their constructors, their index operators   *)
(* and their equality.                                                     *)
(***************************************************************************)
EXTENDS Integers, Sequences, FiniteSets, TLC

VARIABLES
    pc,          \* "idle" | "defined" | "rejected" | "measured" | "stored"
                 \* | "value" | "panicked" | "converted" | "noimpl"
                 \* | "compared"
    fields,      \* field types of the aggregate under definition, in order
    accepted,    \* the aggregate implements Std140Struct
    native,      \* offset of each field as the host types place it
    std140,      \* offset of each field by the std140 offset rule
    size,        \* native size of the aggregate
    align,       \* native alignment of the aggregate
    stdSize,     \* std140 size of the aggregate
    stdAlign,    \* std140 alignment of the aggregate
    constructed, \* a value of the aggregate type has been built
    probe,       \* result of the last mem::size_of / mem::align_of query
    stored,      \* the last boolean written to memory, with its 32 bits
    obj,         \* the vector, matrix or array value in hand
    last,        \* per position of obj: the value last put there
    outcome,     \* the last call on obj: what it was and how it ended
    conv,        \* the last conversion to boolean
    rhs,         \* the right operand of the last ==
    made         \* how the unbounded array in hand came about

layoutVars == <<fields, accepted, native, std140, size, align, stdSize,
                stdAlign, constructed, probe, stored>>
valueVars == <<obj, last, outcome, conv, rhs, made>>

vars == <<pc, fields, accepted, native, std140, size, align, stdSize,
          stdAlign, constructed, probe, stored, obj, last, outcome, conv,
          rhs, made>>

(***************************************************************************)
(* Bounds of the model.                                                    *)
(***************************************************************************)
MaxFields == 3
MaxLen == 3
MaxIndex == 4
MaxPush == 2

(***************************************************************************)
(* Type descriptors.                                                       *)
(***************************************************************************)
ScalarKinds == {"float", "int", "uint", "boolean"}
VecLens == {2, 3, 4}

Prim(p) == [k |-> "prim", p |-> p]
Scalar(s) == [k |-> "scalar", s |-> s]
Vec(s, n) == [k |-> "vec", s |-> s, n |-> n]
Mat(c, r) == [k |-> "mat", c |-> c, r |-> r]
AlignmentedElement(t) == [k |-> "elem", t |-> t]
Array(t, len) == [k |-> "array", t |-> t, len |-> len]
UnboundedArray(t) == [k |-> "unbounded", t |-> t]
Struct(fs) == [k |-> "struct", fields |-> fs]

\* A struct that is not marked with the attribute.
PlainStruct(fs) == [k |-> "plain", fields |-> fs]

NoType == [k |-> "none"]

Max(a, b) == IF a >= b THEN a ELSE b

\* Round x up to the next multiple of a: the padding rule of repr(C).
RoundUp(x, a) == ((x + a - 1) \div a) * a

(***************************************************************************)
(* Host primitives and the repr attributes of the source.                  *)
(***************************************************************************)
\* The primitive a scalar wraps: f32, i32, u32; boolean is a repr(u32) enum.
PrimOf(s) ==
    CASE s = "float" -> "f32"
      [] s = "int" -> "i32"
      [] s = "uint" -> "u32"
      [] s = "boolean" -> "u32"

\* Size and alignment, in bytes, of a 32-bit primitive.
PrimSize(p) == 32 \div 8

\* #[repr(C, align(4))] on float, int and uint; boolean is #[repr(u32)].
ScalarAlignAttr(s) == IF s = "boolean" THEN 1 ELSE 4

\* #[repr(C, align(N))] on each of the twelve vector types.
VecAlignAttrCopied(s, n) == 8
VecAlignAttrByKind(s, n) ==
    IF s = "boolean" THEN 4 ELSE IF n = 2 THEN 8 ELSE 16
VecAlignAttrFromSize(s, n) == n * 4
VecAlignAttr(s, n) ==
    CASE s = "float" /\ n = 2 -> 8
      [] s = "float" /\ n = 3 -> 16
      [] s = "float" /\ n = 4 -> 16
      [] s = "int" /\ n = 2 -> 8
      [] s = "int" /\ n = 3 -> 16
      [] s = "int" /\ n = 4 -> 16
      [] s = "uint" /\ n = 2 -> 8
      [] s = "uint" /\ n = 3 -> 16
      [] s = "uint" /\ n = 4 -> 16
      [] s = "boolean" /\ n = 2 -> 8
      [] s = "boolean" /\ n = 3 -> 16
      [] s = "boolean" /\ n = 4 -> 16

\* #[repr(C, align(16))] on AlignmentedElement<T>.
ElementAlign == 16

\* #[repr(C, align(16))] on unbounded_array<T>.
UnboundedAlignAttr == 16

\* The alignment the repr_std140 attribute gives an aggregate.
StructAlignAttr == 16

\* The component types of a vector: N primitives, or N booleans for bvecN.
VecComponents(s, n) ==
    [i \in 1..n |-> IF s = "boolean" THEN Scalar("boolean") ELSE Prim(PrimOf(s))]

\* A matrix holds one field: columns: array<vecR, C>.
ColumnsCopied(t) == Array(Vec("float", t.r), 3)
ColumnsByRows(t) == Array(Vec("float", t.c), t.r)
Columns(t) == Array(Vec("float", t.r), t.c)

(***************************************************************************)
(* Native layout: size_of and align_of of the host types.                  *)
(***************************************************************************)
RECURSIVE Layout(_), ReprCOffsets(_, _)

\* The members a struct type is laid out from, in declaration order.
Members(t) ==
    CASE t.k = "scalar" -> <<Prim(PrimOf(t.s))>>
      [] t.k = "vec" -> VecComponents(t.s, t.n)
      [] t.k = "elem" -> <<t.t>>
      [] t.k = "mat" -> <<Columns(t)>>
      [] t.k = "struct" -> t.fields
      [] OTHER -> <<>>

\* The align(N) attribute of a type; 1 when the type carries none.
AlignAttrElementMissing(t) ==
    CASE t.k = "scalar" -> ScalarAlignAttr(t.s)
      [] t.k = "vec" -> VecAlignAttr(t.s, t.n)
      [] t.k = "struct" -> StructAlignAttr
      [] OTHER -> 1
AlignAttr(t) ==
    CASE t.k = "scalar" -> ScalarAlignAttr(t.s)
      [] t.k = "vec" -> VecAlignAttr(t.s, t.n)
      [] t.k = "elem" -> ElementAlign
      [] t.k = "struct" -> StructAlignAttr
      [] OTHER -> 1

\* Offsets without padding: each member right at the end of the previous.
ReprCOffsetsPacked(ms, n) ==
    [i \in 1..n |->
        LET RECURSIVE End(_)
            End(j) == IF j = 0 THEN 0 ELSE End(j - 1) + ms[j].size
        IN  End(i - 1)]

\* repr(C): the offsets of the first n members, ms[i] being the layout of
\* member i.  Each member goes at the end of the previous one, rounded up
\* to its own alignment.
ReprCOffsets(ms, n) ==
    IF n = 0 THEN <<>>
    ELSE LET offs == ReprCOffsets(ms, n - 1)
             end == IF n = 1 THEN 0 ELSE offs[n - 1] + ms[n - 1].size
         IN  Append(offs, RoundUp(end, ms[n].align))

\* The widest alignment among the members; 1 without members.
Widest(ms) ==
    LET RECURSIVE W(_)
        W(i) == IF i = 0 THEN 1 ELSE Max(ms[i].align, W(i - 1))
    IN  W(Len(ms))

\* repr(C) without the padding at the end.
ReprCUnpadded(ms, attr) ==
    LET n == Len(ms)
        offs == ReprCOffsets(ms, n)
        a == Max(attr, Widest(ms))
        end == IF n = 0 THEN 0 ELSE offs[n] + ms[n].size
    IN  [size |-> end, align |-> a, offsets |-> offs]

\* Size, alignment and member offsets of a type with member layouts ms and
\* align attribute attr: the alignment is the larger of the attribute and
\* the widest member, the size is the end of the last member rounded up to
\* the alignment.
ReprC(ms, attr) ==
    LET n == Len(ms)
        offs == ReprCOffsets(ms, n)
        a == Max(attr, Widest(ms))
        end == IF n = 0 THEN 0 ELSE offs[n] + ms[n].size
    IN  [size |-> RoundUp(end, a), align |-> a, offsets |-> offs]

\* The inner [E; LEN] of an array, e being the layout of E: LEN slots, each
\* the size of E apart, aligned as E is (also when LEN is 0).
Slots(e, len) ==
    [size |-> len * e.size, align |-> e.align,
     offsets |-> [i \in 1..len |-> (i - 1) * e.size]]

\* unbounded_array<T> wraps a Vec: pointer, capacity and length, each one
\* pointer wide (w bytes on the target).
UnboundedAlignOfVec(w) == w
UnboundedAlign(w) == Max(UnboundedAlignAttr, w)
UnboundedSize(w) == RoundUp(3 * w, UnboundedAlign(w))

\* The pointer width, in bytes, of the target the layouts of aggregates
\* are computed for.
TargetPointerWidth == 8

Layout(t) ==
    CASE t.k = "prim" ->
            [size |-> PrimSize(t.p), align |-> PrimSize(t.p), offsets |-> <<>>]
      [] t.k = "array" -> Slots(Layout(AlignmentedElement(t.t)), t.len)
      [] t.k = "unbounded" ->
            [size |-> UnboundedSize(TargetPointerWidth),
             align |-> UnboundedAlign(TargetPointerWidth), offsets |-> <<0>>]
      [] OTHER ->
            ReprC([i \in 1..Len(Members(t)) |-> Layout(Members(t)[i])],
                  AlignAttr(t))

SizeOf(t) == Layout(t).size
AlignOf(t) == Layout(t).align

\* Offsets of the members of a type inside it.
MemberOffsets(t) == Layout(t).offsets

(***************************************************************************)
(* Capabilities: the marker traits.                                        *)
(***************************************************************************)
RECURSIVE ReprStd140(_), Std140ArrayElement(_), WellFormed(_)

\* A struct marked with the attribute implements Std140Struct when every
\* field type implements ReprStd140.
Std140Struct(t) ==
    /\ t.k = "struct"
    /\ \A i \in 1..Len(t.fields) :
          WellFormed(t.fields[i]) /\ ReprStd140(t.fields[i])

\* T: Std140ArrayElement: scalars, vectors, matrices and marked structs.
Std140ArrayElementAnyField(t) == ReprStd140(t)
Std140ArrayElement(t) ==
    \/ t.k \in {"scalar", "vec", "mat"}
    \/ Std140Struct(t)

\* T: ReprStd140: the array element types, and the two array types.
ReprStd140(t) ==
    \/ t.k \in {"scalar", "vec", "mat"}
    \/ t.k \in {"array", "unbounded"} /\ Std140ArrayElement(t.t)
    \/ Std140Struct(t)

\* The where-clauses of the generic types: their parameter must be an
\* array element type.
WellFormed(t) ==
    CASE t.k \in {"elem", "array", "unbounded"} -> Std140ArrayElement(t.t)
      [] t.k = "struct" -> \A i \in 1..Len(t.fields) : WellFormed(t.fields[i])
      [] OTHER -> TRUE

(***************************************************************************)
(* The documented std140 layout.                                           *)
(***************************************************************************)
RECURSIVE Std140Layout(_), Std140Offsets(_, _)

\* Field i goes at the end of field i-1 rounded up to its alignment.
Std140Offsets(ms, n) ==
    IF n = 0 THEN <<>>
    ELSE LET offs == Std140Offsets(ms, n - 1)
             end == IF n = 1 THEN 0 ELSE offs[n - 1] + ms[n - 1].size
         IN  Append(offs, RoundUp(end, ms[n].align))

\* An aggregate with field layouts ms: its alignment is the widest field
\* alignment rounded up to 16, its size the end of the last field rounded
\* up to its alignment.
Std140Aggregate(ms) ==
    LET n == Len(ms)
        offs == Std140Offsets(ms, n)
        a == RoundUp(Widest(ms), 16)
        end == IF n = 0 THEN 0 ELSE offs[n] + ms[n].size
    IN  [size |-> RoundUp(end, a), align |-> a, offsets |-> offs]

\* Size, alignment and field offsets of a type under std140.
Std140Layout(t) ==
    CASE t.k = "scalar" -> [size |-> 4, align |-> 4, offsets |-> <<>>]
      [] t.k = "vec" ->
            [size |-> t.n * 4, align |-> IF t.n = 2 THEN 8 ELSE 16,
             offsets |-> <<>>]
      [] t.k = "mat" ->
            LET col == Std140Layout(Vec("float", t.r))
                a == Max(col.align, 16)
                stride == RoundUp(col.size, a)
            IN  [size |-> t.c * stride, align |-> a,
                 offsets |-> [i \in 1..t.c |-> (i - 1) * stride]]
      [] t.k = "elem" ->
            LET e == Std140Layout(t.t)
                a == Max(e.align, 16)
            IN  [size |-> RoundUp(e.size, a), align |-> a, offsets |-> <<0>>]
      [] t.k = "array" ->
            LET e == Std140Layout(AlignmentedElement(t.t))
            IN  [size |-> t.len * e.size, align |-> e.align,
                 offsets |-> [i \in 1..t.len |-> (i - 1) * e.size]]
      [] t.k = "unbounded" ->
            LET e == Std140Layout(AlignmentedElement(t.t))
            IN  [size |-> 0, align |-> e.align, offsets |-> <<>>]
      [] t.k = "struct" ->
            Std140Aggregate([i \in 1..Len(t.fields) |->
                                Std140Layout(t.fields[i])])

Std140Size(t) == Std140Layout(t).size
Std140Align(t) == Std140Layout(t).align

(***************************************************************************)
(* boolean: a repr(u32) enum.                                              *)
(***************************************************************************)
BooleanVariants == {"True", "False"}

\* The discriminants: True = 1, False = 0.
DiscriminantSwapped(v) == IF v = "True" THEN 0 ELSE 1
Discriminant(v) == IF v = "True" THEN 1 ELSE 0

\* The u32 a boolean is stored as.
StoredBits(v) == Discriminant(v)

(***************************************************************************)
(* Values.                                                                 *)
(***************************************************************************)
\* The f32, i32 and u32 values the model draws from, and the two booleans.
FloatValues == {"0.0", "1.0", "NaN"}
IntValues == {"0", "1"}
Values(s) ==
    CASE s = "float" -> FloatValues
      [] s = "int" -> IntValues
      [] s = "uint" -> IntValues
      [] s = "boolean" -> BooleanVariants

\* The literal zero() passes for each position.
ZeroLiteralOne(s) == IF s = "boolean" THEN "True" ELSE "1"
ZeroLiteral(s) ==
    CASE s = "float" -> "0.0"
      [] s = "int" -> "0"
      [] s = "uint" -> "0"
      [] s = "boolean" -> "False"

NoValue == [k |-> "none"]

\* float(x), int(x), uint(x).
ScalarValue(s, x) == [k |-> "scalar", s |-> s, v |-> x]

\* The tuple constructor vecN(c0, .., cN-1): field j holds cj.
VecNew(s, n, cs) == [k |-> "vec", s |-> s, n |-> n, c |-> cs]

\* vecN::zero().
VecZeroButLast(s, n) ==
    VecNew(s, n, [i \in 1..n |-> IF i = n THEN ZeroLiteralOne(s)
                                 ELSE ZeroLiteral(s)])
VecZero(s, n) == VecNew(s, n, [i \in 1..n |-> ZeroLiteral(s)])

\* The vector types that implement Index and IndexMut: all but bvec4.
HasIndex(s, n) ==
    \/ s \in {"float", "int", "uint"} /\ n \in {2, 3, 4}
    \/ s = "boolean" /\ n \in {2, 3}

\* match index { 0 => self.0, .., N-1 => self.N-1, _ => panic!() }: the
\* tuple field the arm for index i yields, counted from 1; 0 for the panic.
IndexArmClamped(n, i) == IF i < n THEN i + 1 ELSE n
IndexArm(n, i) == IF i < n THEN i + 1 ELSE 0

\* AlignmentedElement(x).
Element(x) == [k |-> "elem", v |-> x]

\* array::new(inner).
ArrayNew(inner) == [k |-> "array", len |-> Len(inner), e |-> inner]

\* array![x0, .., xn]: every xi is wrapped in an AlignmentedElement.
ArrayMacro(xs) == ArrayNew([i \in 1..Len(xs) |-> Element(xs[i])])

\* array![x; n]: n copies of the wrapped x.
ArrayRepeat(x, n) == ArrayNew([i \in 1..n |-> Element(x)])

\* unbounded_array::new(inner): the given Vec of wrapped elements.
UnboundedNew(inner) == [k |-> "unbounded", e |-> inner]

\* Vec::from_iter collects the items in the order the iterator yields them.
RECURSIVE VecFromIter(_)
VecFromIter(iter) ==
    IF iter = <<>> THEN <<>>
    ELSE <<Head(iter)>> \o VecFromIter(Tail(iter))

\* unbounded_array::from_iter(iter)
FromIter(iter) == UnboundedNew(VecFromIter(iter))

\* push on the Vec an unbounded array derefs to.
VecPushFront(e, x) == <<x>> \o e
VecPush(e, x) == Append(e, x)

\* What the positions of an unbounded array hold.
Items(o) == [j \in 0..(Len(o.e) - 1) |-> o.e[j + 1].v]

\* Indexing the slice an array derefs to: position i, counted from 1; 0
\* when the bounds check fails.
SliceIndex(len, i) == IF i < len THEN i + 1 ELSE 0

\* The matrix constructor matCxR(c0, .., cC-1).
MatNew(c, r, cols) ==
    [k |-> "mat", c |-> c, r |-> r, columns |-> ArrayMacro(cols)]

\* matCxR::zero(): C times vecR::zero().
MatZero(c, r) == MatNew(c, r, [i \in 1..c |-> VecZero("float", r)])

\* identity() exists for mat2x2, mat3x3 and mat4x4.
HasIdentity(c, r) == <<c, r>> \in {<<2, 2>>, <<3, 3>>, <<4, 4>>}

MatIdentityCopied(c, r) ==
    MatNew(c, r, [i \in 1..c |->
        VecNew("float", r, [j \in 1..r |-> IF j = 1 THEN "1.0" ELSE "0.0"])])
MatIdentity(c, r) ==
    CASE c = 2 /\ r = 2 ->
            MatNew(2, 2, << VecNew("float", 2, <<"1.0", "0.0">>),
                            VecNew("float", 2, <<"0.0", "1.0">>) >>)
      [] c = 3 /\ r = 3 ->
            MatNew(3, 3, << VecNew("float", 3, <<"1.0", "0.0", "0.0">>),
                            VecNew("float", 3, <<"0.0", "1.0", "0.0">>),
                            VecNew("float", 3, <<"0.0", "0.0", "1.0">>) >>)
      [] c = 4 /\ r = 4 ->
            MatNew(4, 4, << VecNew("float", 4, <<"1.0", "0.0", "0.0", "0.0">>),
                            VecNew("float", 4, <<"0.0", "1.0", "0.0", "0.0">>),
                            VecNew("float", 4, <<"0.0", "0.0", "1.0", "0.0">>),
                            VecNew("float", 4, <<"0.0", "0.0", "0.0", "1.0">>) >>)

\* == on f32, i32, u32 and boolean: a NaN equals nothing.
PrimEq(s, a, b) ==
    IF s = "float" THEN a # "NaN" /\ b # "NaN" /\ a = b ELSE a = b

\* The derived and the hand-written PartialEq impls.
RECURSIVE ValueEq(_, _), ArrayEqFrom(_, _, _)

\* array's eq: for i in 0..LEN, return false at the first differing slot.
ArrayEqFirstOnly(a, b, i) ==
    IF a.len = 0 THEN TRUE ELSE ValueEq(a.e[1], b.e[1])
ArrayEqFrom(a, b, i) ==
    IF i > a.len THEN TRUE
    ELSE IF ~ValueEq(a.e[i], b.e[i]) THEN FALSE
    ELSE ArrayEqFrom(a, b, i + 1)

ValueEq(x, y) ==
    CASE x.k = "scalar" -> PrimEq(x.s, x.v, y.v)
      [] x.k = "vec" -> \A i \in 1..x.n : PrimEq(x.s, x.c[i], y.c[i])
      [] x.k = "elem" -> ValueEq(x.v, y.v)
      [] x.k = "array" -> ArrayEqFrom(x, y, 1)
      [] x.k = "mat" -> ValueEq(x.columns, y.columns)

\* The native values a boolean may be converted from.
NativeKinds == {"bool", "float", "int", "uint"}
NativeValues(k) ==
    CASE k = "bool" -> {"true", "false"}
      [] k = "float" -> FloatValues
      [] OTHER -> IntValues

\* The From impls of boolean: From<bool> only.
HasFrom(k) == k = "bool"

\* boolean::from(value: bool).
BooleanFromSwapped(value) ==
    CASE value = "true" -> "False"
      [] value = "false" -> "True"
BooleanFrom(value) ==
    CASE value = "true" -> "True"
      [] value = "false" -> "False"

\* A boolean as a native truth value: its discriminant is not 0.
BooleanAsBool(v) == IF Discriminant(v) # 0 THEN "true" ELSE "false"

(***************************************************************************)
(* The types the model draws from.                                         *)
(***************************************************************************)
Scalars == {Scalar(s) : s \in ScalarKinds}
Vectors == {Vec(s, n) : s \in ScalarKinds, n \in VecLens}
Matrices == {Mat(c, r) : c \in VecLens, r \in VecLens}
LeafTypes == Scalars \cup Vectors \cup Matrices

\* The two aggregates of tests/repr_std140_macro_test.rs.
PointLightFields == <<Vec("float", 3), Scalar("float"), Scalar("float")>>
PointLight == Struct(PointLightFields)
UniformsFields == <<Mat(4, 4), Vec("float", 3), Array(PointLight, 2)>>
Uniforms == Struct(UniformsFields)

\* A marked struct that ends in an unbounded array.
UnsizedBlock == Struct(<<Scalar("uint"), UnboundedArray(Scalar("uint"))>>)

ElementTypes == LeafTypes \cup {PointLight}

\* The types whose size and alignment are queried.
SizedTypes ==
    LeafTypes
    \cup {AlignmentedElement(t) : t \in ElementTypes}
    \cup {Array(t, len) : t \in ElementTypes, len \in 0..MaxLen}
    \cup {PointLight, Uniforms}

\* The types a declared aggregate draws its fields from.  A bare array slot,
\* an array of arrays and an unmarked struct are not ReprStd140: an aggregate
\* that names one of them does not compile.
FieldTypes ==
    Scalars
    \cup {Vec(s, 3) : s \in ScalarKinds}
    \cup {Vec("float", 2), Vec("boolean", 2)}
    \cup {Mat(4, 4), PointLight, Array(PointLight, 2)}
    \cup {AlignmentedElement(Scalar("uint"))}
    \cup {Array(Array(Scalar("uint"), 2), 2), PlainStruct(<<Scalar("float")>>)}
    \cup {Array(Scalar("uint"), 0)}
    \cup {UnboundedArray(Scalar("uint")), UnsizedBlock}

FieldLists == UNION {[1..n -> FieldTypes] : n \in 0..MaxFields}

\* Pointer widths, in bytes, of the targets the crate builds for.
PointerWidths == {4, 8}

\* The layouts of the field types, computed once.
HostLayout == [t \in FieldTypes |-> Layout(t)]
RuleLayout == [t \in FieldTypes |-> Std140Layout(t)]

NoProbe == [ty |-> NoType, size |-> 0, align |-> 0, parts |-> <<>>, usize |-> 0]
NoStore == [v |-> "none", bits |-> 0]
NoOutcome == [op |-> "none", idx |-> 0, status |-> "none", got |-> <<>>]
NoConv == [k |-> "none", x |-> "none", result |-> "none", back |-> "none"]
NoMade == [by |-> "none", from |-> <<>>, pushed |-> <<>>]

\* The columns a matrix is built from in the model.
ColumnPool(r) ==
    {VecZero("float", r), VecNew("float", r, [j \in 1..r |-> "1.0"])}

\* The scalars an array is built from in the model.
ArrayKinds == {"uint", "float"}

(***************************************************************************)
(* The state machine.                                                      *)
(***************************************************************************)
Init ==
    /\ pc = "idle"
    /\ fields = <<>>
    /\ accepted = FALSE
    /\ native = <<>>
    /\ std140 = <<>>
    /\ size = 0
    /\ align = 0
    /\ stdSize = 0
    /\ stdAlign = 0
    /\ constructed = FALSE
    /\ probe = NoProbe
    /\ stored = NoStore
    /\ obj = NoValue
    /\ last = <<>>
    /\ outcome = NoOutcome
    /\ conv = NoConv
    /\ rhs = NoValue
    /\ made = NoMade

\* #[repr_std140] struct S { fs }: compiles when every field type is
\* ReprStd140; the struct is then laid out by the host as repr(C, align(16))
\* and implements Std140Struct.
Define(fs) ==
    /\ pc = "idle"
    /\ LET ok == Std140Struct(Struct(fs))
           host == ReprC([i \in 1..Len(fs) |-> HostLayout[fs[i]]],
                         StructAlignAttr)
           rule == Std140Aggregate([i \in 1..Len(fs) |-> RuleLayout[fs[i]]])
       IN  /\ pc' = IF ok THEN "defined" ELSE "rejected"
           /\ fields' = fs
           /\ accepted' = ok
           /\ native' = IF ok THEN host.offsets ELSE <<>>
           /\ size' = IF ok THEN host.size ELSE 0
           /\ align' = IF ok THEN host.align ELSE 0
           /\ std140' = IF ok THEN rule.offsets ELSE <<>>
           /\ stdSize' = IF ok THEN rule.size ELSE 0
           /\ stdAlign' = IF ok THEN rule.align ELSE 0
    /\ UNCHANGED <<constructed, probe, stored>>
    /\ UNCHANGED valueVars

\* A value of the defined aggregate is built with a struct literal.
Construct ==
    /\ pc = "defined"
    /\ ~constructed
    /\ constructed' = TRUE
    /\ UNCHANGED <<pc, fields, accepted, native, std140, size, align,
                   stdSize, stdAlign, probe, stored>>
    /\ UNCHANGED valueVars

\* mem::size_of::<T>(), mem::align_of::<T>() and the member offsets of T.
Measure(t) ==
    /\ pc = "idle"
    /\ WellFormed(t)
    /\ pc' = "measured"
    /\ LET host == Layout(t)
       IN  probe' = [ty |-> t, size |-> host.size, align |-> host.align,
                     parts |-> host.offsets, usize |-> 0]
    /\ UNCHANGED <<fields, accepted, native, std140, size, align, stdSize,
                   stdAlign, constructed, stored>>
    /\ UNCHANGED valueVars

\* The same query for unbounded_array<T> on a target with w-byte pointers.
MeasureUnbounded(t, w) ==
    /\ pc = "idle"
    /\ WellFormed(UnboundedArray(t))
    /\ pc' = "measured"
    /\ probe' = [ty |-> UnboundedArray(t), size |-> UnboundedSize(w),
                 align |-> UnboundedAlign(w), parts |-> <<>>, usize |-> w]
    /\ UNCHANGED <<fields, accepted, native, std140, size, align, stdSize,
                   stdAlign, constructed, stored>>
    /\ UNCHANGED valueVars

\* A boolean is written to memory.
StoreBoolean(v) ==
    /\ pc = "idle"
    /\ pc' = "stored"
    /\ stored' = [v |-> v, bits |-> StoredBits(v)]
    /\ UNCHANGED <<fields, accepted, native, std140, size, align, stdSize,
                   stdAlign, constructed, probe>>
    /\ UNCHANGED valueVars

\* A vector is built with the tuple constructor.
CallVecNew(s, n, cs) ==
    /\ pc = "idle"
    /\ pc' = "value"
    /\ obj' = VecNew(s, n, cs)
    /\ last' = [j \in 0..(n - 1) |-> cs[j + 1]]
    /\ outcome' = [NoOutcome EXCEPT !.op = "new"]
    /\ UNCHANGED <<conv, rhs, made>>
    /\ UNCHANGED layoutVars

\* A vector is built with zero().
CallVecZero(s, n) ==
    /\ pc = "idle"
    /\ pc' = "value"
    /\ obj' = VecZero(s, n)
    /\ last' = [j \in 0..(n - 1) |-> obj'.c[j + 1]]
    /\ outcome' = [NoOutcome EXCEPT !.op = "zero"]
    /\ UNCHANGED <<conv, rhs, made>>
    /\ UNCHANGED layoutVars

\* v[i]: Index::index on a vector.
VecIndex(i) ==
    /\ pc = "value"
    /\ obj.k = "vec"
    /\ HasIndex(obj.s, obj.n)
    /\ LET arm == IndexArm(obj.n, i)
       IN  IF arm = 0
           THEN /\ pc' = "panicked"
                /\ outcome' = [op |-> "read", idx |-> i, status |-> "panic",
                               got |-> <<>>]
           ELSE /\ pc' = "value"
                /\ outcome' = [op |-> "read", idx |-> i, status |-> "ok",
                               got |-> <<obj.c[arm]>>]
    /\ UNCHANGED <<obj, last, conv, rhs, made>>
    /\ UNCHANGED layoutVars

\* v[i] = x: IndexMut::index_mut on a vector, then the store.
VecIndexMut(i, x) ==
    /\ pc = "value"
    /\ obj.k = "vec"
    /\ HasIndex(obj.s, obj.n)
    /\ x \in Values(obj.s)
    /\ LET arm == IndexArm(obj.n, i)
       IN  IF arm = 0
           THEN /\ pc' = "panicked"
                /\ outcome' = [op |-> "write", idx |-> i, status |-> "panic",
                               got |-> <<>>]
                /\ UNCHANGED <<obj, last>>
           ELSE /\ pc' = "value"
                /\ outcome' = [op |-> "write", idx |-> i, status |-> "ok",
                               got |-> <<>>]
                /\ obj' = [obj EXCEPT !.c[arm] = x]
                /\ last' = [j \in DOMAIN last |-> IF j = i THEN x ELSE last[j]]
    /\ UNCHANGED <<conv, rhs, made>>
    /\ UNCHANGED layoutVars

\* A matrix is built with the constructor function.
CallMatNew(c, r, cols) ==
    /\ pc = "idle"
    /\ pc' = "value"
    /\ obj' = MatNew(c, r, cols)
    /\ last' = [j \in 0..(c - 1) |-> cols[j + 1]]
    /\ outcome' = [NoOutcome EXCEPT !.op = "new"]
    /\ UNCHANGED <<conv, rhs, made>>
    /\ UNCHANGED layoutVars

\* A matrix is built with zero().
CallMatZero(c, r) ==
    /\ pc = "idle"
    /\ pc' = "value"
    /\ obj' = MatZero(c, r)
    /\ last' = [j \in 0..(c - 1) |-> obj'.columns.e[j + 1].v]
    /\ outcome' = [NoOutcome EXCEPT !.op = "zero"]
    /\ UNCHANGED <<conv, rhs, made>>
    /\ UNCHANGED layoutVars

\* A square matrix is built with identity().
CallMatIdentity(c, r) ==
    /\ pc = "idle"
    /\ HasIdentity(c, r)
    /\ pc' = "value"
    /\ obj' = MatIdentity(c, r)
    /\ last' = [j \in 0..(c - 1) |-> obj'.columns.e[j + 1].v]
    /\ outcome' = [NoOutcome EXCEPT !.op = "identity"]
    /\ UNCHANGED <<conv, rhs, made>>
    /\ UNCHANGED layoutVars

\* An array of scalars is built with array![..].
CallArrayNew(s, xs) ==
    /\ pc = "idle"
    /\ pc' = "value"
    /\ obj' = ArrayMacro([i \in 1..Len(xs) |-> ScalarValue(s, xs[i])])
    /\ last' = [j \in 0..(Len(xs) - 1) |-> ScalarValue(s, xs[j + 1])]
    /\ outcome' = [NoOutcome EXCEPT !.op = "new"]
    /\ UNCHANGED <<conv, rhs, made>>
    /\ UNCHANGED layoutVars

\* a[i].0: the array derefs to its slice, the slice is indexed.
ArrayIndex(i) ==
    /\ pc = "value"
    /\ obj.k = "array"
    /\ LET at == SliceIndex(obj.len, i)
       IN  IF at = 0
           THEN /\ pc' = "panicked"
                /\ outcome' = [op |-> "read", idx |-> i, status |-> "panic",
                               got |-> <<>>]
           ELSE /\ pc' = "value"
                /\ outcome' = [op |-> "read", idx |-> i, status |-> "ok",
                               got |-> <<obj.e[at].v>>]
    /\ UNCHANGED <<obj, last, conv, rhs, made>>
    /\ UNCHANGED layoutVars

\* a[i] = AlignmentedElement(x), through deref_mut.
ArrayIndexMut(i, x) ==
    /\ pc = "value"
    /\ obj.k = "array"
    /\ LET at == SliceIndex(obj.len, i)
       IN  IF at = 0
           THEN /\ pc' = "panicked"
                /\ outcome' = [op |-> "write", idx |-> i, status |-> "panic",
                               got |-> <<>>]
                /\ UNCHANGED <<obj, last>>
           ELSE /\ pc' = "value"
                /\ outcome' = [op |-> "write", idx |-> i, status |-> "ok",
                               got |-> <<>>]
                /\ obj' = [obj EXCEPT !.e[at] = Element(x)]
                /\ last' = [j \in DOMAIN last |-> IF j = i THEN x ELSE last[j]]
    /\ UNCHANGED <<conv, rhs, made>>
    /\ UNCHANGED layoutVars

\* An array of scalars is built with array![x; n].
CallArrayRepeat(s, x, n) ==
    /\ pc = "idle"
    /\ pc' = "value"
    /\ obj' = ArrayRepeat(ScalarValue(s, x), n)
    /\ last' = [j \in 0..(n - 1) |-> ScalarValue(s, x)]
    /\ outcome' = [NoOutcome EXCEPT !.op = "repeat",
                                    !.got = <<ScalarValue(s, x)>>]
    /\ UNCHANGED <<conv, rhs, made>>
    /\ UNCHANGED layoutVars

\* a == other, for another array of the same type.
ArrayEq(other) ==
    /\ pc = "value"
    /\ obj.k = "array"
    /\ other.len = obj.len
    /\ pc' = "compared"
    /\ rhs' = other
    /\ outcome' = [op |-> "eq", idx |-> 0, status |-> "ok",
                   got |-> <<ValueEq(obj, other)>>]
    /\ UNCHANGED <<obj, last, conv, made>>
    /\ UNCHANGED layoutVars

\* An unbounded array is made from a Vec of wrapped scalars.
CallUnboundedNew(s, xs) ==
    /\ pc = "idle"
    /\ pc' = "value"
    /\ obj' = UnboundedNew([i \in 1..Len(xs) |->
                                Element(ScalarValue(s, xs[i]))])
    /\ made' = [by |-> "new",
                from |-> [i \in 1..Len(xs) |-> ScalarValue(s, xs[i])],
                pushed |-> <<>>]
    /\ outcome' = [NoOutcome EXCEPT !.op = "new"]
    /\ UNCHANGED <<last, conv, rhs>>
    /\ UNCHANGED layoutVars

\* An unbounded array is collected from an iterator of wrapped scalars.
CallFromIter(s, xs) ==
    /\ pc = "idle"
    /\ pc' = "value"
    /\ obj' = FromIter([i \in 1..Len(xs) |->
                            Element(ScalarValue(s, xs[i]))])
    /\ made' = [by |-> "from_iter",
                from |-> [i \in 1..Len(xs) |-> ScalarValue(s, xs[i])],
                pushed |-> <<>>]
    /\ outcome' = [NoOutcome EXCEPT !.op = "from_iter"]
    /\ UNCHANGED <<last, conv, rhs>>
    /\ UNCHANGED layoutVars

\* a.push(AlignmentedElement(x))
UnboundedPush(x) ==
    /\ pc = "value"
    /\ obj.k = "unbounded"
    /\ Len(made.pushed) < MaxPush
    /\ pc' = "value"
    /\ obj' = [obj EXCEPT !.e = VecPush(@, Element(x))]
    /\ made' = [made EXCEPT !.pushed = Append(@, x)]
    /\ outcome' = [NoOutcome EXCEPT !.op = "push"]
    /\ UNCHANGED <<last, conv, rhs>>
    /\ UNCHANGED layoutVars

\* a.len()
UnboundedLen ==
    /\ pc = "value"
    /\ obj.k = "unbounded"
    /\ pc' = "value"
    /\ outcome' = [op |-> "len", idx |-> 0, status |-> "ok",
                   got |-> <<Len(obj.e)>>]
    /\ UNCHANGED <<obj, last, conv, rhs, made>>
    /\ UNCHANGED layoutVars

\* a[i] read; the Vec's index aborts out of range.
UnboundedIndex(i) ==
    /\ pc = "value"
    /\ obj.k = "unbounded"
    /\ LET at == SliceIndex(Len(obj.e), i)
       IN  IF at = 0
           THEN /\ pc' = "panicked"
                /\ outcome' = [op |-> "read", idx |-> i, status |-> "panic",
                               got |-> <<>>]
           ELSE /\ pc' = "value"
                /\ outcome' = [op |-> "read", idx |-> i, status |-> "ok",
                               got |-> <<obj.e[at].v>>]
    /\ UNCHANGED <<obj, last, conv, rhs, made>>
    /\ UNCHANGED layoutVars

\* boolean::from(x) for a native x of kind k; without a From impl for k the
\* call does not compile.
CallBooleanFrom(k, x) ==
    /\ pc = "idle"
    /\ IF HasFrom(k)
       THEN /\ pc' = "converted"
            /\ conv' = [k |-> k, x |-> x, result |-> BooleanFrom(x),
                        back |-> BooleanAsBool(BooleanFrom(x))]
       ELSE /\ pc' = "noimpl"
            /\ conv' = [NoConv EXCEPT !.k = k, !.x = x]
    /\ UNCHANGED <<obj, last, outcome, rhs, made>>
    /\ UNCHANGED layoutVars

\* The next item of the crate is processed.
NextItem ==
    /\ pc # "idle"
    /\ pc' = "idle"
    /\ fields' = <<>>
    /\ accepted' = FALSE
    /\ native' = <<>>
    /\ std140' = <<>>
    /\ size' = 0
    /\ align' = 0
    /\ stdSize' = 0
    /\ stdAlign' = 0
    /\ constructed' = FALSE
    /\ probe' = NoProbe
    /\ stored' = NoStore
    /\ obj' = NoValue
    /\ last' = <<>>
    /\ outcome' = NoOutcome
    /\ conv' = NoConv
    /\ rhs' = NoValue
    /\ made' = NoMade

\* An item is processed only when the previous one is done.
Next ==
    \/ pc = "idle" /\ \E fs \in FieldLists : Define(fs)
    \/ Construct
    \/ pc = "idle" /\ \E t \in SizedTypes : Measure(t)
    \/ pc = "idle" /\ \E t \in ElementTypes, w \in PointerWidths :
                        MeasureUnbounded(t, w)
    \/ pc = "idle" /\ \E v \in BooleanVariants : StoreBoolean(v)
    \/ pc = "idle" /\ \E s \in ScalarKinds, n \in VecLens :
                        \E cs \in [1..n -> Values(s)] : CallVecNew(s, n, cs)
    \/ pc = "idle" /\ \E s \in ScalarKinds, n \in VecLens : CallVecZero(s, n)
    \/ \E i \in 0..MaxIndex : VecIndex(i)
    \/ pc = "value" /\ obj.k = "vec" /\
          \E i \in 0..MaxIndex, x \in Values(obj.s) : VecIndexMut(i, x)
    \/ pc = "idle" /\ \E c \in VecLens, r \in VecLens :
                        \E cols \in [1..c -> ColumnPool(r)] :
                            CallMatNew(c, r, cols)
    \/ pc = "idle" /\ \E c \in VecLens, r \in VecLens : CallMatZero(c, r)
    \/ pc = "idle" /\ \E c \in VecLens, r \in VecLens : CallMatIdentity(c, r)
    \/ pc = "idle" /\ \E s \in ArrayKinds, len \in 0..MaxLen :
                        \E xs \in [1..len -> Values(s)] : CallArrayNew(s, xs)
    \/ pc = "idle" /\ \E s \in ArrayKinds, n \in 0..MaxLen :
                        \E x \in Values(s) : CallArrayRepeat(s, x, n)
    \/ \E i \in 0..MaxIndex : ArrayIndex(i)
    \/ pc = "value" /\ obj.k = "array" /\
          \E s \in ArrayKinds :
              \E xs \in [1..obj.len -> Values(s)] :
                  /\ IF obj.len = 0 THEN TRUE ELSE obj.e[1].v.s = s
                  /\ ArrayEq(ArrayMacro([i \in 1..obj.len |->
                                            ScalarValue(s, xs[i])]))
    \/ pc = "value" /\ obj.k = "array" /\
          \E i \in 0..MaxIndex, s \in ArrayKinds :
              \E x \in Values(s) :
                  /\ IF obj.len = 0 THEN TRUE ELSE obj.e[1].v.s = s
                  /\ ArrayIndexMut(i, ScalarValue(s, x))
    \/ pc = "idle" /\ \E s \in ArrayKinds, n \in 0..MaxLen :
                        \E xs \in [1..n -> Values(s)] :
                            CallUnboundedNew(s, xs)
    \/ pc = "idle" /\ \E s \in ArrayKinds, n \in 0..MaxLen :
                        \E xs \in [1..n -> Values(s)] : CallFromIter(s, xs)
    \/ pc = "value" /\ obj.k = "unbounded" /\
          \E s \in ArrayKinds :
              \E x \in Values(s) :
                  /\ IF Len(obj.e) = 0 THEN TRUE ELSE obj.e[1].v.s = s
                  /\ UnboundedPush(ScalarValue(s, x))
    \/ UnboundedLen
    \/ \E i \in 0..(MaxIndex + MaxPush) : UnboundedIndex(i)
    \/ pc = "idle" /\ \E k \in NativeKinds :
                        \E x \in NativeValues(k) : CallBooleanFrom(k, x)
    \/ NextItem

Spec == Init /\ [][Next]_vars

(***************************************************************************)
(* Properties.                                                             *)
(***************************************************************************)
\* o is e rounded up to a multiple of a.
IsRoundUp(o, e, a) == o % a = 0 /\ o >= e /\ o - e < a

\* The largest of a non-empty sequence of numbers.
Largest(xs) ==
    CHOOSE m \in {xs[i] : i \in 1..Len(xs)} : \A i \in 1..Len(xs) : xs[i] <= m

HostSizes == [i \in 1..Len(fields) |-> HostLayout[fields[i]].size]
HostAligns == [i \in 1..Len(fields) |-> HostLayout[fields[i]].align]
RuleSizes == [i \in 1..Len(fields) |-> RuleLayout[fields[i]].size]
RuleAligns == [i \in 1..Len(fields) |-> RuleLayout[fields[i]].align]

\* The native offsets and the std140 offsets of the fields agree.
OffsetsMatch == \A i \in 1..Len(fields) : native[i] = std140[i]

\* C1: in the layout of an accepted, non-empty aggregate the first field is
\* at offset 0, every later field is at the end of the previous field rounded
\* up to its own alignment, the aggregate alignment is the widest field
\* alignment rounded up to 16, and the aggregate size is the end of the last
\* field rounded up to the aggregate alignment.  This holds of the std140
\* layout (with the documented sizes) and of the native layout (with the
\* host sizes).
C1_LayoutRule ==
    (pc = "defined" /\ fields # <<>>) =>
        LET n == Len(fields)
        IN  /\ std140[1] = 0
            /\ native[1] = 0
            /\ \A i \in 2..n :
                  /\ IsRoundUp(std140[i], std140[i - 1] + RuleSizes[i - 1],
                               RuleAligns[i])
                  /\ IsRoundUp(native[i], native[i - 1] + HostSizes[i - 1],
                               HostAligns[i])
            /\ IsRoundUp(stdAlign, Largest(RuleAligns), 16)
            /\ IsRoundUp(align, Largest(HostAligns), 16)
            /\ IsRoundUp(stdSize, std140[n] + RuleSizes[n], stdAlign)
            /\ IsRoundUp(size, native[n] + HostSizes[n], align)

\* An accepted aggregate of three fields where both the second field and the
\* end of the aggregate needed padding.
C1_Witness ==
    /\ pc = "defined"
    /\ Len(fields) = 3
    /\ std140[2] > std140[1] + RuleSizes[1]
    /\ native[2] > native[1] + HostSizes[1]
    /\ stdSize > std140[3] + RuleSizes[3]

\* C2: an aggregate is accepted, and a value of it built, only if every
\* field's native offset equals its std140 offset.
C2_MismatchRejected ==
    /\ accepted => OffsetsMatch
    /\ constructed => OffsetsMatch

\* C3: PointLight = (vec3, float, float) is accepted and each field's native
\* offset equals its std140 offset.
C3_PointLightMatches ==
    (pc \in {"defined", "rejected"} /\ fields = PointLightFields) =>
        accepted /\ OffsetsMatch

\* The bytes a vector's components occupy, from its start.
PayloadEnd(t) ==
    HostLayout[t].offsets[t.n] + PrimSize(PrimOf(t.s))

\* C4: in Uniforms = (mat4x4, vec3, array<PointLight, 2>) the matrix occupies
\* bytes [0, 64), the components of the vec3 occupy [64, 76), the array
\* starts at 80 after 4 bytes of padding, and the two array slots are
\* round_up(size(PointLight), 16) apart.
C4_UniformsLayout ==
    (pc = "defined" /\ fields = UniformsFields) =>
        LET slots == HostLayout[fields[3]].offsets
            ruleSlots == RuleLayout[fields[3]].offsets
        IN  /\ accepted
            /\ native[1] = 0
            /\ native[1] + HostSizes[1] = 64
            /\ native[2] = 64
            /\ native[2] + PayloadEnd(fields[2]) = 76
            /\ native[3] = 80
            /\ native[3] - (native[2] + PayloadEnd(fields[2])) = 4
            /\ std140 = <<0, 64, 80>>
            /\ std140[2] + RuleSizes[2] = 76
            /\ slots[1] = 0
            /\ IsRoundUp(slots[2] - slots[1], HostLayout[PointLight].size, 16)
            /\ ruleSlots[1] = 0
            /\ IsRoundUp(ruleSlots[2] - ruleSlots[1],
                         RuleLayout[PointLight].size, 16)

C4_Witness ==
    /\ pc = "defined"
    /\ fields = UniformsFields
    /\ native = <<0, 64, 80>>
    /\ constructed

\* C5: every 3-component vector has size 12 and alignment 16, and the second
\* of two leading 3-component vector fields is at offset 16.
C5_Vec3Size ==
    /\ (pc = "measured" /\ probe.ty.k = "vec" /\ probe.ty.n = 3) =>
          probe.size = 12 /\ probe.align = 16
    /\ (/\ pc = "defined"
        /\ Len(fields) >= 2
        /\ fields[1].k = "vec" /\ fields[1].n = 3
        /\ fields[2].k = "vec" /\ fields[2].n = 3) =>
          native[1] = 0 /\ native[2] = 16

\* C6: a 3-component vector field after a leading 2-component vector field is
\* at offset 16: the end, 8, of the first field rounded up to 16.
C6_Vec3AfterVec2 ==
    (/\ pc = "defined"
     /\ Len(fields) >= 2
     /\ fields[1].k = "vec" /\ fields[1].n = 2
     /\ fields[2].k = "vec" /\ fields[2].n = 3) =>
        /\ native[1] = 0
        /\ native[1] + HostSizes[1] = 8
        /\ native[2] = 16
        /\ std140[1] + RuleSizes[1] = 8
        /\ std140[2] = 16

C6_Witness ==
    /\ pc = "defined"
    /\ Len(fields) = 2
    /\ fields[1] = Vec("float", 2)
    /\ fields[2] = Vec("float", 3)
    /\ native = <<0, 16>>

\* C7: the stride of an array slot is a multiple of 16 and is the element
\* size rounded up to 16 (16 for uint); an array of Len elements has size
\* Len times the stride, with slot i at i times the stride.
C7_ArrayStride ==
    /\ (pc = "measured" /\ probe.ty.k = "elem") =>
          /\ probe.size % 16 = 0
          /\ IsRoundUp(probe.size, SizeOf(probe.ty.t), 16)
    /\ (pc = "measured" /\ probe.ty = AlignmentedElement(Scalar("uint"))) =>
          probe.size = 16
    /\ (pc = "measured" /\ probe.ty.k = "array") =>
          LET stride == SizeOf(AlignmentedElement(probe.ty.t))
          IN  /\ stride % 16 = 0
              /\ IsRoundUp(stride, SizeOf(probe.ty.t), 16)
              /\ probe.size = probe.ty.len * stride
              /\ Len(probe.parts) = probe.ty.len
              /\ \A i \in 1..probe.ty.len : probe.parts[i] = (i - 1) * stride

C7_Witness ==
    /\ pc = "measured"
    /\ probe.ty = Array(Scalar("uint"), 2)
    /\ probe.size = 32
    /\ probe.parts = <<0, 16>>

\* C8: the alignment of an array slot, of a fixed array and of an unbounded
\* array is the larger of 16 and the element's alignment; it is 16 for
\* unbounded_array<uint>.
C8_ArrayAlignment ==
    /\ (pc = "measured" /\ probe.ty.k \in {"elem", "array", "unbounded"}) =>
          /\ probe.align >= 16
          /\ probe.align >= AlignOf(probe.ty.t)
          /\ probe.align \in {16, AlignOf(probe.ty.t)}
    /\ (pc = "measured" /\ probe.ty = UnboundedArray(Scalar("uint"))) =>
          probe.align = 16

C8_Witness ==
    /\ pc = "measured"
    /\ probe.ty = UnboundedArray(Scalar("uint"))
    /\ probe.usize = 8
    /\ probe.align = 16

\* C9: every scalar has size 4 and alignment 4; boolean has two values,
\* False stored as 0 and True stored as 1.
C9_Scalars ==
    /\ (pc = "measured" /\ probe.ty.k = "scalar") =>
          probe.size = 4 /\ probe.align = 4
    /\ Cardinality(BooleanVariants) = 2
    /\ pc = "stored" =>
          /\ stored.v \in {"True", "False"}
          /\ stored.v = "False" <=> stored.bits = 0
          /\ stored.v = "True" <=> stored.bits = 1

C9_Witness ==
    /\ pc = "stored"
    /\ stored.v = "True"
    /\ stored.bits = 1

\* C10: a 2-component vector has alignment 8, a 3- or 4-component vector
\* has alignment 16, whatever the scalar kind.
C10_VectorAlignment ==
    (pc = "measured" /\ probe.ty.k = "vec") =>
        /\ probe.align = IF probe.ty.n = 2 THEN 8 ELSE 16
        /\ \A s \in ScalarKinds : AlignOf(Vec(s, probe.ty.n)) = probe.align

C10_Witness ==
    /\ pc = "measured"
    /\ probe.ty = Vec("boolean", 4)
    /\ probe.align = 16

\* The types a type directly contains.
Components(t) ==
    IF t.k \in {"array", "unbounded"} THEN {AlignmentedElement(t.t)}
    ELSE {Members(t)[i] : i \in 1..Len(Members(t))}

IsPowerOfTwo(a) == \E e \in 0..6 : a = 2 ^ e

\* C11: a matrix of C columns and R rows is C slots of vecR laid out as
\* array elements: its alignment is 16, the slots are 16 bytes apart and
\* its size is C times 16 (32 for mat2x2, 64 for mat4x4).
C11_MatrixLayout ==
    (pc = "measured" /\ probe.ty.k = "mat") =>
        LET stride == SizeOf(AlignmentedElement(Vec("float", probe.ty.r)))
            slots == MemberOffsets(Columns(probe.ty))
        IN  /\ probe.align = 16
            /\ stride = 16
            /\ Len(slots) = probe.ty.c
            /\ \A i \in 1..Len(slots) : slots[i] = (i - 1) * stride
            /\ probe.size = probe.ty.c * stride
            /\ probe.ty = Mat(2, 2) => probe.size = 32
            /\ probe.ty = Mat(4, 4) => probe.size = 64

C11_Witness ==
    /\ pc = "measured"
    /\ probe.ty = Mat(2, 3)
    /\ probe.size = 32
    /\ probe.align = 16

\* C12: the alignment of every type (scalar, vector, matrix, array slot,
\* array, unbounded array, accepted aggregate) is a power of two and is at
\* least the alignment of every type it directly contains.
C12_AlignmentPowerOfTwo ==
    /\ pc = "measured" =>
          /\ IsPowerOfTwo(probe.align)
          /\ \A c \in Components(probe.ty) : probe.align >= AlignOf(c)
    /\ pc = "defined" =>
          /\ IsPowerOfTwo(align)
          /\ \A i \in 1..Len(fields) : align >= HostAligns[i]

C12_Witness ==
    /\ pc = "measured"
    /\ probe.ty = Vec("boolean", 2)
    /\ probe.align = 8
    /\ AlignOf(Scalar("boolean")) = 4

\* No unvalidated type is nested in t: every struct in it is marked, every
\* array element in it is a scalar, a vector, a matrix or a marked struct.
RECURSIVE Validated(_)
Validated(t) ==
    CASE t.k \in {"scalar", "vec", "mat"} -> TRUE
      [] t.k \in {"array", "unbounded"} ->
            t.t.k \in {"scalar", "vec", "mat", "struct"} /\ Validated(t.t)
      [] t.k = "struct" -> \A i \in 1..Len(t.fields) : Validated(t.fields[i])
      [] OTHER -> FALSE

\* C13: scalars, vectors and matrices hold the field and the array-element
\* capability, arrays and unbounded arrays hold only the field capability,
\* an accepted aggregate holds both; an aggregate is accepted exactly when
\* no unvalidated type is nested in its fields, and the element type of
\* every array in use holds the array-element capability.
C13_Capabilities ==
    /\ (pc = "measured" /\ probe.ty.k \in {"scalar", "vec", "mat"}) =>
          ReprStd140(probe.ty) /\ Std140ArrayElement(probe.ty)
    /\ (pc = "measured" /\ probe.ty.k \in {"array", "unbounded"}) =>
          ReprStd140(probe.ty) /\ ~Std140ArrayElement(probe.ty)
    /\ pc = "defined" =>
          /\ accepted
          /\ ReprStd140(Struct(fields)) /\ Std140ArrayElement(Struct(fields))
          /\ \A i \in 1..Len(fields) : Validated(fields[i])
    /\ pc = "rejected" =>
          /\ ~accepted
          /\ \E i \in 1..Len(fields) : ~Validated(fields[i])
    /\ (pc = "measured" /\ probe.ty.k \in {"elem", "array", "unbounded"}) =>
          Validated(probe.ty.t) /\ probe.ty.t.k \notin {"array", "unbounded"}

\* An accepted aggregate that nests an accepted aggregate, directly and as
\* the element of an array.
C13_Witness ==
    /\ pc = "defined"
    /\ accepted
    /\ fields = <<PointLight, Array(PointLight, 2)>>

\* C14: an accepted aggregate has an unbounded array only as its last
\* field, and no aggregate nested in it has an unbounded array field.
C14_UnboundedLastOnly ==
    pc = "defined" =>
        \A i \in 1..Len(fields) :
            /\ fields[i].k = "unbounded" => i = Len(fields)
            /\ fields[i].k = "struct" =>
                  \A j \in 1..Len(fields[i].fields) :
                      fields[i].fields[j].k # "unbounded"

\* m[i][j]: the matrix derefs to its array of columns, the slice is indexed,
\* then the column vector is.
Component(m, i, j) ==
    m.columns.e[SliceIndex(m.columns.len, i)].v.c[IndexArm(m.r, j)]

\* C15: zero() of a matrix of C columns and R rows equals, under ==, the
\* matrix built by the constructor from C times vecR::zero(), and every
\* component of every column of it is 0.0.
C15_MatZero ==
    /\ (pc = "value" /\ obj.k = "mat" /\ outcome.op = "zero") =>
          /\ ValueEq(obj, MatNew(obj.c, obj.r,
                                 [i \in 1..obj.c |-> VecZero("float", obj.r)]))
          /\ obj.columns.len = obj.c
          /\ \A i \in 0..(obj.c - 1), j \in 0..(obj.r - 1) :
                Component(obj, i, j) = "0.0"
    /\ (/\ pc = "value" /\ obj.k = "mat" /\ outcome.op = "new"
        /\ \A i \in 0..(obj.c - 1) : last[i] = VecZero("float", obj.r)) =>
          ValueEq(MatZero(obj.c, obj.r), obj)

C15_Witness ==
    /\ pc = "value"
    /\ outcome.op = "zero"
    /\ obj.k = "mat"
    /\ obj.c = 4 /\ obj.r = 4
    /\ Component(obj, 3, 3) = "0.0"

\* C16: identity() exists exactly for the matrices with as many columns as
\* rows, and component j of column i of identity() is 1.0 when i = j and
\* 0.0 otherwise.
C16_Identity ==
    /\ \A c \in VecLens, r \in VecLens : HasIdentity(c, r) <=> c = r
    /\ (pc = "value" /\ obj.k = "mat" /\ outcome.op = "identity") =>
          /\ obj.c = obj.r
          /\ obj.columns.len = obj.c
          /\ \A i \in 0..(obj.c - 1), j \in 0..(obj.r - 1) :
                Component(obj, i, j) = IF i = j THEN "1.0" ELSE "0.0"

C16_Witness ==
    /\ pc = "value"
    /\ outcome.op = "identity"
    /\ obj.c = 3 /\ obj.r = 3
    /\ Component(obj, 2, 2) = "1.0"
    /\ Component(obj, 2, 0) = "0.0"

\* C17: boolean::from(x) exists for x of every scalar kind (float, int,
\* uint) and is False exactly when x is the zero of its kind.
C17_BooleanFromScalar ==
    (pc \in {"converted", "noimpl"} /\ conv.k \in {"float", "int", "uint"}) =>
        /\ pc = "converted"
        /\ conv.result \in BooleanVariants
        /\ conv.result = "False" <=> conv.x = ZeroLiteral(conv.k)

\* C18: boolean::from(true) is True, boolean::from(false) is False, and the
\* truth value read back from the boolean is the one converted.
C18_BooleanFromBool ==
    (pc \in {"converted", "noimpl"} /\ conv.k = "bool") =>
        /\ pc = "converted"
        /\ conv.x = "true" => conv.result = "True"
        /\ conv.x = "false" => conv.result = "False"
        /\ conv.back = conv.x

C18_Witness ==
    /\ pc = "converted"
    /\ conv.k = "bool"
    /\ conv.x = "true"
    /\ conv.result = "True"
    /\ conv.back = "true"

\* The number of positions of a vector or an array, and what they hold.
Length(o) == IF o.k = "vec" THEN o.n ELSE o.len
Contents(o) ==
    IF o.k = "vec" THEN [j \in 0..(o.n - 1) |-> o.c[j + 1]]
    ELSE [j \in 0..(o.len - 1) |-> o.e[j + 1].v]

\* C19: a read or a write of a vector or an array at a position that is not
\* below its length panics: it yields no value, and the vector or array
\* holds what it held.
C19_OutOfRangeAborts ==
    (/\ obj.k \in {"vec", "array"}
     /\ outcome.op \in {"read", "write"}
     /\ outcome.idx >= Length(obj)) =>
        /\ pc = "panicked"
        /\ outcome.status = "panic"
        /\ outcome.got = <<>>
        /\ Contents(obj) = last

C19_Witness ==
    /\ pc = "panicked"
    /\ obj.k = "vec"
    /\ obj.n = 2
    /\ outcome.op = "write"
    /\ outcome.idx = 2

\* C20: every vector can be indexed; a read of position i yields the value
\* last written there, or the constructor's argument i if none was; the
\* positions of a vector hold exactly those values; zero() holds the zero
\* of the kind at every position.
C20_VectorReadWrite ==
    /\ (pc = "value" /\ obj.k = "vec") => HasIndex(obj.s, obj.n)
    /\ (obj.k = "vec" /\ outcome.op = "read" /\ outcome.status = "ok") =>
          outcome.got = <<last[outcome.idx]>>
    /\ obj.k = "vec" => Contents(obj) = last
    /\ (obj.k = "vec" /\ outcome.op = "zero") =>
          \A j \in 0..(obj.n - 1) : Contents(obj)[j] = ZeroLiteral(obj.s)

\* C20 for the vector types that implement Index and IndexMut.
C20_IndexedVectors ==
    (obj.k = "vec" /\ HasIndex(obj.s, obj.n)) => C20_VectorReadWrite

\* C21: an array built from e0..e(Len-1), or from Len copies of e, holds at
\* position i exactly ei (or e); the slot wrapper does not change the value
\* read; a == b is true exactly when the elements are equal at every
\* position.
C21_ArrayContents ==
    /\ (obj.k = "array" /\ outcome.op \in {"new", "repeat"}) =>
          /\ Length(obj) = Len(obj.e)
          /\ Contents(obj) = last
    /\ (obj.k = "array" /\ outcome.op = "repeat") =>
          \A j \in 0..(obj.len - 1) : <<Contents(obj)[j]>> = outcome.got
    /\ (obj.k = "array" /\ outcome.op = "read" /\ outcome.status = "ok") =>
          outcome.got = <<last[outcome.idx]>>
    /\ (pc = "compared" /\ obj.k = "array") =>
          (outcome.got = <<TRUE>>) <=>
              \A j \in 0..(obj.len - 1) :
                  PrimEq(Contents(obj)[j].s, Contents(obj)[j].v,
                         Contents(rhs)[j].v)

\* Two arrays with the same elements in a different order compare unequal.
C21_Witness ==
    /\ pc = "compared"
    /\ obj.len = 2
    /\ Contents(obj)[0] = Contents(rhs)[1]
    /\ Contents(obj)[1] = Contents(rhs)[0]
    /\ Contents(obj)[0] # Contents(obj)[1]
    /\ outcome.got = <<FALSE>>

\* C22: an unbounded array made from a finite sequence s (given as a Vec or
\* collected from an iterator, empty included) has length |s| and holds
\* s[i] at index i; after pushing x1..xk it has length |s| + k, holds xj at
\* index |s| + j - 1, and the earlier elements are unchanged.
C22_UnboundedContents ==
    obj.k = "unbounded" =>
        LET s == made.from
            k == Len(made.pushed)
        IN  /\ made.by \in {"new", "from_iter"}
            /\ Len(obj.e) = Len(s) + k
            /\ \A i \in 0..(Len(s) - 1) : Items(obj)[i] = s[i + 1]
            /\ \A j \in 1..k : Items(obj)[Len(s) + j - 1] = made.pushed[j]
            /\ outcome.op = "len" => outcome.got = <<Len(s) + k>>
            /\ (outcome.op = "read" /\ outcome.status = "ok") =>
                  /\ outcome.idx < Len(s) + k
                  /\ outcome.got = <<(s \o made.pushed)[outcome.idx + 1]>>

\* The second of two different pushed elements is read back after two
\* collected ones.
C22_Witness ==
    /\ obj.k = "unbounded"
    /\ made.by = "from_iter"
    /\ Len(made.from) = 2
    /\ Len(made.pushed) = 2
    /\ made.pushed[1] # made.pushed[2]
    /\ made.from[1] # made.from[2]
    /\ outcome.op = "read"
    /\ outcome.idx = 3
    /\ outcome.got = <<made.pushed[2]>>

\* Fields placed at offs, with sizes szs and alignments als, in an aggregate
\* of size total: every offset is a multiple of the field's alignment, the
\* byte ranges of the fields follow each other without overlap inside
\* [0, total), and total is a multiple of 16.
Placed(offs, szs, als, total) ==
    /\ \A i \in 1..Len(offs) :
          /\ offs[i] >= 0
          /\ offs[i] % als[i] = 0
          /\ offs[i] + szs[i] <= total
    /\ \A i \in 1..Len(offs) : \A j \in (i + 1)..Len(offs) :
          offs[i] + szs[i] <= offs[j]
    /\ total % 16 = 0

\* C23 as stated: in the layout of every accepted aggregate every field
\* offset is a multiple of the field's alignment, the offsets are strictly
\* increasing in declaration order, the byte ranges of the fields do not
\* overlap and lie within [0, size), and the size is a multiple of 16.
C23_StrictlyIncreasing ==
    pc = "defined" =>
        /\ Placed(native, HostSizes, HostAligns, size)
        /\ \A i \in 2..Len(fields) : native[i - 1] < native[i]

\* C23, amended: in the native and in the std140 layout of every accepted
\* aggregate every field offset is a multiple of the field's alignment, the
\* offsets never decrease in declaration order and increase after every
\* field of non-zero size, the byte ranges of the fields do not overlap and
\* lie within [0, size), and the size is a multiple of 16.
C23_LayoutSound ==
    pc = "defined" =>
        /\ Len(native) = Len(fields)
        /\ Len(std140) = Len(fields)
        /\ Placed(native, HostSizes, HostAligns, size)
        /\ Placed(std140, RuleSizes, RuleAligns, stdSize)
        /\ \A i \in 2..Len(fields) :
              /\ native[i - 1] <= native[i]
              /\ std140[i - 1] <= std140[i]
              /\ HostSizes[i - 1] > 0 => native[i - 1] < native[i]
              /\ RuleSizes[i - 1] > 0 => std140[i - 1] < std140[i]

\* A zero-length array followed by a float: both fields are at offset 0.
C23_Witness ==
    /\ pc = "defined"
    /\ fields = <<Array(Scalar("uint"), 0), Scalar("float")>>
    /\ native = <<0, 0>>
    /\ size = 16

====
